---- MODULE Spec2Model ----
(***************************************************************************)
(* File-backed wallet (wallet/file/file.go): the sealed secret envelope    *)
(* (Argon2 KDF + Deoxys-II AEAD), the wallet factory operations on the     *)
(* persisted store (Create, Import, Load, Remove, Rename) and the wallet   *)
(* facade built by newWallet.                                              *)
(*                                                                         *)
(* Cryptographic primitives are modelled symbolically (ideal KDF, ideal    *)
(* AEAD): a key is the tuple of the inputs it was derived from, and a      *)
(* ciphertext opens only under the key and nonce it was sealed with and    *)
(* only when none of its bytes has been changed.                           *)
(***************************************************************************)
EXTENDS Integers, Sequences, FiniteSets, TLC

VARIABLES store, ret, out, removed

vars == <<store, ret, out, removed>>

----------------------------------------------------------------------------
(* Program constants. *)

stateKeySize == 32
stateNonceSize == 32
kdfSaltSize == 32

\* bip39.NewEntropy(256): the entropy of a fresh mnemonic, in bytes.
EntropySize == 32

\* deoxysii.NonceSize: the nonce size of Deoxys-II-256-128, aead.NonceSize().
NonceSize == 15

\* Argon2 parameters fixed by Seal.
Argon2Time == 1
Argon2Memory == 65536
Argon2Threads == 4

\* sakg.MaxAccountKeyNumber, the largest key number GetAccountSigner accepts.
MaxAccountKeyNumber == 2147483647

AlgorithmEd25519Adr8 == "ed25519-adr8"
AlgorithmEd25519Raw == "ed25519-raw"
AlgorithmSecp256k1Bip44 == "secp256k1-bip44"
AlgorithmSecp256k1Raw == "secp256k1-raw"

ImportKindMnemonic == "mnemonic"
ImportKindPrivateKey == "private key"

----------------------------------------------------------------------------
(* Bounds of the model. *)

\* Outcomes of the random source during one call: seeds 0..MaxSeed.
MaxSeed == 1
\* Values of cfg.Number: 0..MaxNumber.
MaxNumber == 1
\* Ciphertext byte positions an external writer may change: 1..MaxFlip.
MaxFlip == 1

Names == {"alice", "bob"}
Passphrases == {"correct horse", "hunter2"}
\* The four supported algorithms and one tag the code does not know.
Algorithms == {AlgorithmEd25519Adr8, AlgorithmEd25519Raw,
               AlgorithmSecp256k1Bip44, AlgorithmSecp256k1Raw, "sr25519"}
Numbers == 0..MaxNumber
ImportKinds == {ImportKindMnemonic, ImportKindPrivateKey}
Seeds == 0..MaxSeed
\* The external call that fails during a Create or an Import, if any.
Faults == {"none", "rand.Read", "WriteFile"}

----------------------------------------------------------------------------
(* Sentinels. *)

Nil == [nil |-> "nil"]
NoFile == [nil |-> "no file"]
NoErr == "nil"

\* Error values the factory returns.
ErrConfig == "missing configuration"
ErrKdf == "unsupported key derivation algorithm"
ErrLoadIO == "failed to load wallet state: no such file or directory"
ErrLoadOpen == "failed to open wallet state (maybe incorrect passphrase?)"
ErrSave == "failed to save state: permission denied"

----------------------------------------------------------------------------
(* Secret data.  A data string is modelled by the encoding its text really *)
(* has and the value it encodes.                                           *)

\* bip39.NewMnemonic(entropy): the phrase encoding the entropy.
NewMnemonic(entropy) == [enc |-> "bip39", v |-> entropy]

\* bip39 validation of a phrase (word list and checksum).
IsMnemonic(data) == data.enc = "bip39"

----------------------------------------------------------------------------
(* External primitives. *)

\* crypto/rand: the bytes the reads of one factory call yield, in order, when
\* the source's outcome is seed.  Every block of stateNonceSize bytes is
\* seed \div 2 in its first half and seed in its second half.
RandStream(seed) ==
  [i \in 1..(EntropySize + stateNonceSize + kdfSaltSize) |->
     IF 2 * ((i - 1) % stateNonceSize) < stateNonceSize THEN seed \div 2 ELSE seed]
\* The outcome of a failing rand.Read.
RandFail == <<>>
\* What the reads of one call yield under each outcome: Create reads the
\* mnemonic's entropy and then Seal's nonce and salt, Import only the latter.
CreateEntropy == [seed \in 0..MaxSeed |-> SubSeq(RandStream(seed), 1, EntropySize)]
CreateRand ==
  [seed \in 0..MaxSeed |->
     SubSeq(RandStream(seed), EntropySize + 1, EntropySize + stateNonceSize + kdfSaltSize)]
ImportRand ==
  [seed \in 0..MaxSeed |-> SubSeq(RandStream(seed), 1, stateNonceSize + kdfSaltSize)]

\* argon2.IDKey(password, salt, time, memory, threads, keyLen): ideal KDF,
\* the key is determined by, and determines, all of its inputs.
IDKey(password, salt, time, memory, threads, keyLen) ==
  [kdf |-> "argon2id", password |-> password, salt |-> salt, time |-> time,
   memory |-> memory, threads |-> threads, keyLen |-> keyLen]

\* s[:n] of a Go slice; FALSE stands for the slice-bounds panic.
SliceOk(s, n) == n <= Len(s)
Slice(s, n) == SubSeq(s, 1, n)

\* deoxysii Seal(nil, nonce, plaintext, nil) under key: ideal AEAD.  flips is
\* the set of ciphertext byte positions changed since sealing.
AeadSeal(key, nonce, plaintext) ==
  [key |-> key, nonce |-> nonce, pt |-> plaintext, flips |-> {}]

\* deoxysii Open(nil, nonce, ciphertext, nil) under key: the plaintext, or
\* ErrOpen when the tag does not verify.
ErrOpen == "deoxysii: message authentication failure"
AeadOpenOk(key, nonce, ct) ==
  /\ ct.key = key
  /\ ct.nonce = nonce
  /\ ct.flips = {}

\* encoding/json of a secretState: the object's members in field order.
MarshalState(s) == <<"algorithm", s.Algorithm, "data", s.Data>>
UnmarshalStateOk(pt) == Len(pt) = 4 /\ pt[1] = "algorithm" /\ pt[3] = "data"
UnmarshalState(pt) == [Algorithm |-> pt[2], Data |-> pt[4]]

\* encoding/json of a secretStateEnvelope.  The kdf object is a list of
\* members; argon2 is omitted when nil (omitempty), and members the struct
\* does not declare are ignored when reading.
MarshalEnvelope(e) ==
  [kdf |-> IF e.KDF.Argon2 = Nil THEN <<>> ELSE << <<"argon2", e.KDF.Argon2>> >>,
   nonce |-> e.Nonce,
   data |-> e.Data]
UnmarshalEnvelope(raw) ==
  [KDF |-> [Argon2 |-> IF \E i \in DOMAIN raw.kdf : raw.kdf[i][1] = "argon2"
                       THEN LET i == CHOOSE i \in DOMAIN raw.kdf : raw.kdf[i][1] = "argon2"
                            IN raw.kdf[i][2]
                       ELSE Nil],
   Nonce |-> raw.nonce,
   Data |-> raw.data]

----------------------------------------------------------------------------
(* Seal and Open. *)

\* Mutant of kdfArgon2.deriveKey: the passphrase is not fed to the KDF.
kdfArgon2_deriveKeyNoPass(k, passphrase) ==
  IDKey("", k.Salt, k.Time, k.Memory, k.Threads, stateKeySize)

\* kdfArgon2.deriveKey
kdfArgon2_deriveKey(k, passphrase) ==
  IDKey(passphrase, k.Salt, k.Time, k.Memory, k.Threads, stateKeySize)

\* Mutant of secretStateEnvelope.deriveKey: an envelope without argon2 falls
\* back to the default parameters and an empty salt.
deriveKeyDefault(e, passphrase) ==
  LET k == IF e.KDF.Argon2 # Nil THEN e.KDF.Argon2
           ELSE [Salt |-> <<>>, Time |-> Argon2Time, Memory |-> Argon2Memory,
                 Threads |-> Argon2Threads]
  IN [err |-> NoErr, key |-> kdfArgon2_deriveKey(k, passphrase), log |-> <<"argon2.IDKey">>]

\* secretStateEnvelope.deriveKey: [err, key, log].
deriveKey(e, passphrase) ==
  IF e.KDF.Argon2 # Nil
  THEN [err |-> NoErr, key |-> kdfArgon2_deriveKey(e.KDF.Argon2, passphrase),
        log |-> <<"argon2.IDKey">>]
  ELSE [err |-> ErrKdf, key |-> Nil, log |-> <<>>]

\* secretState.Seal: [err, envelope, log].  rnd is what the random source
\* yields to the two reads: RandFail, or the nonce bytes then the salt bytes.
Seal(s, passphrase, rnd) ==
  IF rnd = RandFail
  THEN [err |-> "rand: read failed", envelope |-> Nil, log |-> <<"rand.Read">>]
  ELSE
    LET nonce == SubSeq(rnd, 1, stateNonceSize)
        salt == SubSeq(rnd, stateNonceSize + 1, stateNonceSize + kdfSaltSize)
        envelope == [KDF |-> [Argon2 |-> [Salt |-> salt, Time |-> Argon2Time,
                                          Memory |-> Argon2Memory,
                                          Threads |-> Argon2Threads]],
                     Nonce |-> nonce]
        k == deriveKey(envelope, passphrase)
        data == MarshalState(s)
    IN IF k.err # NoErr
       THEN [err |-> k.err, envelope |-> Nil, log |-> <<"rand.Read", "rand.Read">> \o k.log]
       ELSE [err |-> NoErr,
             envelope |-> [KDF |-> envelope.KDF,
                           Nonce |-> envelope.Nonce,
                           Data |-> AeadSeal(k.key, Slice(envelope.Nonce, NonceSize), data)],
             log |-> <<"rand.Read", "rand.Read">> \o k.log \o <<"deoxysii.Seal">>]

\* Mutant of secretStateEnvelope.Open: the whole stored nonce is handed to the
\* cipher, while Seal hands it the first NonceSize bytes.
OpenFullNonce(e, passphrase) ==
  LET k == deriveKey(e, passphrase)
  IN IF k.err # NoErr
     THEN [err |-> k.err, state |-> Nil, log |-> k.log]
     ELSE IF ~AeadOpenOk(k.key, e.Nonce, e.Data)
     THEN [err |-> ErrOpen, state |-> Nil, log |-> k.log \o <<"deoxysii.Open">>]
     ELSE [err |-> NoErr, state |-> UnmarshalState(e.Data.pt),
           log |-> k.log \o <<"deoxysii.Open">>]

\* Mutant of secretStateEnvelope.Open: the error of aead.Open is dropped and
\* the payload is decoded whatever the tag says.
OpenUnchecked(e, passphrase) ==
  LET k == deriveKey(e, passphrase)
  IN IF k.err # NoErr
     THEN [err |-> k.err, state |-> Nil, log |-> k.log]
     ELSE [err |-> NoErr, state |-> UnmarshalState(e.Data.pt),
           log |-> k.log \o <<"deoxysii.Open">>]

\* secretStateEnvelope.Open: [err, state, log].
Open(e, passphrase) ==
  LET k == deriveKey(e, passphrase)
  IN IF k.err # NoErr
     THEN [err |-> k.err, state |-> Nil, log |-> k.log]
     ELSE IF ~SliceOk(e.Nonce, NonceSize)
     THEN [err |-> "panic: slice bounds out of range", state |-> Nil, log |-> k.log]
     ELSE IF ~AeadOpenOk(k.key, Slice(e.Nonce, NonceSize), e.Data)
     THEN [err |-> ErrOpen, state |-> Nil, log |-> k.log \o <<"deoxysii.Open">>]
     ELSE IF ~UnmarshalStateOk(e.Data.pt)
     THEN [err |-> "json: cannot unmarshal", state |-> Nil,
           log |-> k.log \o <<"deoxysii.Open">>]
     ELSE [err |-> NoErr, state |-> UnmarshalState(e.Data.pt),
           log |-> k.log \o <<"deoxysii.Open">>]

----------------------------------------------------------------------------
(* Signer derivation and the wallet facade. *)

\* sakg.GetAccountSigner(mnemonic, "", number): [err, signer, log].
GetAccountSigner(mnemonic, number) ==
  IF number > MaxAccountKeyNumber
  THEN [err |-> "sakg: invalid key number", signer |-> Nil, log |-> <<>>]
  ELSE IF ~IsMnemonic(mnemonic)
  THEN [err |-> "sakg: invalid mnemonic", signer |-> Nil, log |-> <<>>]
  ELSE [err |-> NoErr,
        signer |-> [curve |-> "ed25519",
                    secret |-> [scheme |-> "adr8", seed |-> mnemonic.v, number |-> number]],
        log |-> <<"slip10.derive">>]

\* ed25519rawSigner.unmarshalBase64(text): [err, signer, log].
unmarshalBase64(text) ==
  IF text.enc # "base64"
  THEN [err |-> "illegal base64 data", signer |-> Nil, log |-> <<>>]
  ELSE [err |-> NoErr,
        signer |-> [curve |-> "ed25519", secret |-> [scheme |-> "raw", key |-> text.v]],
        log |-> <<"ed25519.NewKeyFromSeed">>]

\* Secp256k1FromMnemonic(mnemonic, number): [err, signer, log].
Secp256k1FromMnemonic(mnemonic, number) ==
  IF ~IsMnemonic(mnemonic)
  THEN [err |-> "invalid mnemonic", signer |-> Nil, log |-> <<>>]
  ELSE [err |-> NoErr,
        signer |-> [type |-> "secp256k1.Signer", curve |-> "secp256k1",
                    secret |-> [scheme |-> "bip44", seed |-> mnemonic.v, number |-> number]],
        log |-> <<"bip32.derive">>]

\* Secp256k1FromHex(text): [err, signer, log].
Secp256k1FromHex(text) ==
  IF text.enc # "hex"
  THEN [err |-> "encoding/hex: invalid byte", signer |-> Nil, log |-> <<>>]
  ELSE [err |-> NoErr,
        signer |-> [type |-> "secp256k1.Signer", curve |-> "secp256k1",
                    secret |-> [scheme |-> "raw", key |-> text.v]],
        log |-> <<"secp256k1.NewSigner">>]

\* ed25519.WrapSigner(signer): the wrapper type, which has an Unwrap method.
WrapSigner(signer) ==
  [type |-> "ed25519.wrappedSigner", curve |-> signer.curve, secret |-> signer.secret]

\* The signer types that implement Unwrap() coreSignature.Signer.
HasUnwrap(signer) == signer.type = "ed25519.wrappedSigner"

\* Mutant of newWallet: the raw-key branches offset the key by cfg.Number, as
\* the derivation branches go by it.
newWalletNumbered(state, cfg) ==
  LET made(r, signer, prefix) ==
        IF r.err # NoErr
        THEN [err |-> prefix \o r.err, wallet |-> Nil, log |-> r.log]
        ELSE [err |-> NoErr,
              wallet |-> [cfg |-> cfg, state |-> state, signer |-> signer],
              log |-> r.log]
      numbered(text) == IF text.enc \in {"base64", "hex"}
                        THEN [text EXCEPT !.v = @ + cfg.Number]
                        ELSE text
  IN CASE state.Algorithm = AlgorithmEd25519Adr8 ->
            LET r == GetAccountSigner(state.Data, cfg.Number)
            IN made(r, IF r.err = NoErr THEN WrapSigner(r.signer) ELSE Nil,
                    "failed to derive signer: ")
       [] state.Algorithm = AlgorithmEd25519Raw ->
            LET r == unmarshalBase64(numbered(state.Data))
            IN made(r, IF r.err = NoErr THEN WrapSigner(r.signer) ELSE Nil,
                    "failed to initialize signer: ")
       [] state.Algorithm = AlgorithmSecp256k1Bip44 ->
            LET r == Secp256k1FromMnemonic(state.Data, cfg.Number)
            IN made(r, r.signer, "failed to initialize signer: ")
       [] state.Algorithm = AlgorithmSecp256k1Raw ->
            LET r == Secp256k1FromHex(numbered(state.Data))
            IN made(r, r.signer, "failed to initialize signer: ")
       [] OTHER ->
            [err |-> "algorithm not supported", wallet |-> Nil, log |-> <<>>]

\* newWallet(state, cfg): [err, wallet, log].
newWallet(state, cfg) ==
  LET made(r, signer, prefix) ==
        IF r.err # NoErr
        THEN [err |-> prefix \o r.err, wallet |-> Nil, log |-> r.log]
        ELSE [err |-> NoErr,
              wallet |-> [cfg |-> cfg, state |-> state, signer |-> signer],
              log |-> r.log]
  IN CASE state.Algorithm = AlgorithmEd25519Adr8 ->
            LET r == GetAccountSigner(state.Data, cfg.Number)
            IN made(r, IF r.err = NoErr THEN WrapSigner(r.signer) ELSE Nil,
                    "failed to derive signer: ")
       [] state.Algorithm = AlgorithmEd25519Raw ->
            LET r == unmarshalBase64(state.Data)
            IN made(r, IF r.err = NoErr THEN WrapSigner(r.signer) ELSE Nil,
                    "failed to initialize signer: ")
       [] state.Algorithm = AlgorithmSecp256k1Bip44 ->
            LET r == Secp256k1FromMnemonic(state.Data, cfg.Number)
            IN made(r, r.signer, "failed to initialize signer: ")
       [] state.Algorithm = AlgorithmSecp256k1Raw ->
            LET r == Secp256k1FromHex(state.Data)
            IN made(r, r.signer, "failed to initialize signer: ")
       [] OTHER ->
            [err |-> "algorithm not supported", wallet |-> Nil, log |-> <<>>]

\* Mutant of fileWallet.ConsensusSigner: the key is handed out whatever the
\* signer's type.
ConsensusSignerAny(w) == [core |-> w.signer.curve, secret |-> w.signer.secret]

\* fileWallet.ConsensusSigner: the unwrapped core signer, or nil.
ConsensusSigner(w) ==
  IF HasUnwrap(w.signer)
  THEN [core |-> w.signer.curve, secret |-> w.signer.secret]
  ELSE Nil

\* signer.Public(): the public key of the signer's secret, of the key type of
\* the signer's curve.
Public(signer) ==
  [type |-> IF signer.curve = "ed25519" THEN "ed25519.PublicKey"
            ELSE "secp256k1.PublicKey",
   of |-> signer.secret]

\* The outcome of a failing type assertion x.(T).
Panic == [panic |-> "interface conversion"]

\* fileWallet.SignatureAddressSpec: the address scheme is chosen by the
\* configuration's algorithm and the signer's public key is asserted to be of
\* that scheme's key type.
SignatureAddressSpec(w) ==
  LET pk == Public(w.signer)
  IN IF w.cfg.Algorithm \in {AlgorithmEd25519Adr8, AlgorithmEd25519Raw}
     THEN IF pk.type = "ed25519.PublicKey"
          THEN [scheme |-> "ed25519", pk |-> pk.of]
          ELSE Panic
     ELSE IF w.cfg.Algorithm \in {AlgorithmSecp256k1Bip44, AlgorithmSecp256k1Raw}
     THEN IF pk.type = "secp256k1.PublicKey"
          THEN [scheme |-> "secp256k1eth", pk |-> pk.of]
          ELSE Panic
     ELSE [scheme |-> "", pk |-> Nil]

\* types.NewAddress(spec): ideal hash of the scheme and the public key.
NewAddress(spec) == [address |-> spec]

\* fileWallet.Address
Address(w) ==
  LET spec == SignatureAddressSpec(w)
  IN IF spec = Panic THEN Panic ELSE NewAddress(spec)

\* Mutant of fileWallet.UnsafeExport: the phrase's entropy is exported, in
\* hex, instead of the phrase.
UnsafeExportEntropy(w) == [enc |-> "hex of entropy", v |-> w.state.Data.v]

\* fileWallet.UnsafeExport
UnsafeExport(w) == w.state.Data

\* fileWalletFactory.unmarshalConfig: [err, cfg].
unmarshalConfig(raw) ==
  IF raw = Nil
  THEN [err |-> ErrConfig, cfg |-> Nil]
  ELSE [err |-> NoErr, cfg |-> [Algorithm |-> raw.algorithm, Number |-> raw.number]]

\* fileWalletFactory.HasConsensusSigner
HasConsensusSigner(rawCfg) ==
  LET c == unmarshalConfig(rawCfg)
  IN IF c.err # NoErr THEN FALSE
     ELSE c.cfg.Algorithm \in {AlgorithmEd25519Raw, AlgorithmEd25519Adr8}

\* The raw configurations a caller may pass: a map, or nil.
RawConfigs == [algorithm : Algorithms, number : Numbers] \cup {Nil}

----------------------------------------------------------------------------
(* The wallet factory.  store maps a wallet name to the bytes of its       *)
(* wallet file, ret is the last factory call and what it returned (with    *)
(* the calls to external primitives it made, in order), out is what the    *)
(* last method call on the returned wallet gave, removed the names whose     *)
(* file a Remove deleted and that no Create, Import or Rename has been      *)
(* called on since.                                                         *)

Result(op, name, passphrase, err, state, wallet, log) ==
  [op |-> op, name |-> name, pass |-> passphrase, err |-> err,
   state |-> state, wallet |-> wallet, log |-> log]

Init ==
  /\ store = [n \in Names |-> NoFile]
  /\ ret = Result("init", "", "", NoErr, Nil, Nil, <<>>)
  /\ out = Nil
  /\ removed = {}

\* Data strings a user may hand to Import: the phrase Create yields under
\* seed 0, a base64 Ed25519 key and a hex Secp256k1 key.
ImportData == {NewMnemonic(CreateEntropy[0]),
               [enc |-> "base64", v |-> 0], [enc |-> "hex", v |-> 0]}

\* Lines 358-373 of Create and 444-457 of Import: seal the state, write the
\* wallet file, return.  rnd is what the random source yields to Seal,
\* writeOk whether ioutil.WriteFile succeeds, w the result to return.
SealAndSave(op, name, passphrase, state, rnd, writeOk, w, log) ==
  \E sealed \in {Seal(state, passphrase, rnd)} :
     IF sealed.err # NoErr
     THEN /\ ret' = Result(op, name, passphrase, "failed to seal state: " \o sealed.err,
                           state, Nil, log \o sealed.log)
          /\ UNCHANGED store
     ELSE IF ~writeOk
     THEN /\ ret' = Result(op, name, passphrase, ErrSave, state, Nil, log \o sealed.log \o <<"WriteFile">>)
          /\ UNCHANGED store
     ELSE /\ store' = [store EXCEPT ![name] = MarshalEnvelope(sealed.envelope)]
          /\ ret' = Result(op, name, passphrase, w.err, state, w.wallet,
                           log \o sealed.log \o <<"WriteFile">> \o w.log)

\* fileWalletFactory.Create.  seeds are the outcomes the random source may
\* have during the call.
Create(name, passphrase, rawCfg, seeds) ==
  \E c \in {unmarshalConfig(rawCfg)} :
     /\ out' = Nil
     /\ removed' = removed \ {name}
     /\ IF c.err # NoErr
        THEN /\ ret' = Result("Create", name, passphrase, c.err, Nil, Nil, <<>>)
             /\ UNCHANGED store
        ELSE \E seed \in seeds, fault \in Faults :
             \E state \in {[Algorithm |-> c.cfg.Algorithm,
                            Data |-> NewMnemonic(CreateEntropy[seed])]} :
             \E w \in {newWallet(state, c.cfg)} :
               SealAndSave("Create", name, passphrase, state,
                           IF fault = "rand.Read" THEN RandFail ELSE CreateRand[seed],
                           fault # "WriteFile", w, <<"bip39.NewEntropy">>)

\* What fileWalletFactory.Load returns when the wallet file of name holds raw.
LoadResult(raw, name, passphrase, rawCfg) ==
  LET c == unmarshalConfig(rawCfg)
      o == Open(UnmarshalEnvelope(raw), passphrase)
      w == newWallet(o.state, c.cfg)
  IN IF c.err # NoErr
     THEN Result("Load", name, passphrase, c.err, Nil, Nil, <<>>)
     ELSE IF raw = NoFile
     THEN Result("Load", name, passphrase, ErrLoadIO, Nil, Nil, <<"ReadFile">>)
     ELSE IF o.err # NoErr
     THEN Result("Load", name, passphrase, ErrLoadOpen, Nil, Nil, <<"ReadFile">> \o o.log)
     ELSE Result("Load", name, passphrase, w.err, o.state, w.wallet,
                 <<"ReadFile">> \o o.log \o w.log)

\* Mutant of fileWalletFactory.Load: a wallet file that does not open is
\* deleted.
LoadPurging(name, passphrase, rawCfg) ==
  /\ ret' = LoadResult(store[name], name, passphrase, rawCfg)
  /\ out' = Nil
  /\ store' = IF ret'.err = ErrLoadOpen THEN [store EXCEPT ![name] = NoFile] ELSE store
  /\ UNCHANGED removed

\* fileWalletFactory.Load
Load(name, passphrase, rawCfg) ==
  /\ ret' = LoadResult(store[name], name, passphrase, rawCfg)
  /\ out' = Nil
  /\ UNCHANGED <<store, removed>>

\* Mutant of fileWalletFactory.Remove: success is reported and the file stays.
RemoveKeepsFile(name, rawCfg) ==
  /\ out' = Nil
  /\ store[name] # NoFile
  /\ ret' = Result("Remove", name, "", NoErr, Nil, Nil, <<>>)
  /\ removed' = removed \cup {name}
  /\ UNCHANGED store

\* fileWalletFactory.Remove
Remove(name, rawCfg) ==
  /\ out' = Nil
  /\ IF store[name] = NoFile
     THEN /\ ret' = Result("Remove", name, "", "remove: no such file or directory",
                           Nil, Nil, <<>>)
          /\ UNCHANGED <<store, removed>>
     ELSE /\ store' = [store EXCEPT ![name] = NoFile]
          /\ ret' = Result("Remove", name, "", NoErr, Nil, Nil, <<>>)
          /\ removed' = removed \cup {name}

\* fileWalletFactory.Rename
Rename(old, new, rawCfg) ==
  /\ out' = Nil
  /\ removed' = removed \ {new}
  /\ IF store[old] = NoFile
     THEN /\ ret' = Result("Rename", new, "", "rename: no such file or directory",
                           Nil, Nil, <<>>)
          /\ UNCHANGED store
     ELSE /\ store' = [n \in Names |-> IF n = new THEN store[old]
                                       ELSE IF n = old THEN NoFile ELSE store[n]]
          /\ ret' = Result("Rename", new, "", NoErr, Nil, Nil, <<>>)

\* fileWalletFactory.Import
Import(name, passphrase, rawCfg, kind, data, seeds) ==
  \E c \in {unmarshalConfig(rawCfg)} :
     /\ out' = Nil
     /\ removed' = removed \ {name}
     /\ IF c.err # NoErr
        THEN /\ ret' = Result("Import", name, passphrase, c.err, Nil, Nil, <<>>)
             /\ UNCHANGED store
        ELSE IF kind = ImportKindMnemonic
                /\ c.cfg.Algorithm \notin {AlgorithmEd25519Adr8, AlgorithmSecp256k1Bip44}
        THEN /\ ret' = Result("Import", name, passphrase,
                              "algorithm does not support import from mnemonic",
                              Nil, Nil, <<>>)
             /\ UNCHANGED store
        ELSE IF kind = ImportKindPrivateKey
                /\ c.cfg.Algorithm \notin {AlgorithmEd25519Raw, AlgorithmSecp256k1Raw}
        THEN /\ ret' = Result("Import", name, passphrase,
                              "algorithm does not support import from private key",
                              Nil, Nil, <<>>)
             /\ UNCHANGED store
        ELSE IF kind \notin {ImportKindMnemonic, ImportKindPrivateKey}
        THEN /\ ret' = Result("Import", name, passphrase, "unsupported import kind",
                              Nil, Nil, <<>>)
             /\ UNCHANGED store
        ELSE \E state \in {[Algorithm |-> c.cfg.Algorithm, Data |-> data]} :
             \E w \in {newWallet(state, c.cfg)} :
               IF w.err # NoErr
               THEN /\ ret' = Result("Import", name, passphrase, w.err, state, Nil, w.log)
                    /\ UNCHANGED store
               ELSE \E seed \in seeds, fault \in Faults :
                      SealAndSave("Import", name, passphrase, state,
                                  IF fault = "rand.Read" THEN RandFail ELSE ImportRand[seed],
                                  fault # "WriteFile",
                                  [err |-> NoErr, wallet |-> w.wallet, log |-> <<>>],
                                  w.log)

\* A call of ConsensusSigner on the wallet the last factory call returned.
CallConsensusSigner ==
  /\ ret.wallet # Nil
  /\ out' = [method |-> "ConsensusSigner", value |-> ConsensusSigner(ret.wallet)]
  /\ UNCHANGED <<store, ret, removed>>

\* A call of UnsafeExport on the wallet the last factory call returned.
CallUnsafeExport ==
  /\ ret.wallet # Nil
  /\ out' = [method |-> "UnsafeExport", value |-> UnsafeExport(ret.wallet)]
  /\ UNCHANGED <<store, ret, removed>>

\* An Import, as a mnemonic, of the string the last UnsafeExport returned.
ImportExported(name, passphrase, rawCfg, seeds) ==
  /\ out # Nil
  /\ out.method = "UnsafeExport"
  /\ Import(name, passphrase, rawCfg, ImportKindMnemonic, out.value, seeds)

\* The factory's operations, called with names of names, sealing passphrases
\* of sealWith, configurations of cfgs and random outcomes of seeds.
Factory(names, sealWith, cfgs, seeds) ==
  \/ \E name \in names, passphrase \in sealWith, rawCfg \in cfgs :
       Create(name, passphrase, rawCfg, seeds)
  \/ \E name \in names, passphrase \in Passphrases, rawCfg \in cfgs :
       Load(name, passphrase, rawCfg)
  \/ \E name \in names : Remove(name, Nil)
  \/ \E old \in names, new \in names : Rename(old, new, Nil)
  \/ \E name \in names, passphrase \in sealWith, rawCfg \in cfgs,
        kind \in ImportKinds, data \in ImportData :
       Import(name, passphrase, rawCfg, kind, data, seeds)
  \/ CallConsensusSigner

\* An external writer changes one byte of a wallet file's ciphertext.
CorruptCiphertext(name, pos) ==
  /\ store[name] # NoFile
  /\ store[name].data.flips = {}
  /\ store' = [store EXCEPT ![name].data.flips = {pos}]
  /\ ret' = Result("CorruptCiphertext", name, "", NoErr, Nil, Nil, <<>>)
  /\ out' = Nil
  /\ UNCHANGED removed

\* A wallet file written by a later version of the wallet, which seals under
\* a key derivation this code does not know: the kdf object has no argon2.
ForeignKdf(name) ==
  /\ store[name] # NoFile
  /\ store[name].kdf # <<>>
  /\ store[name].kdf[1][1] = "argon2"
  /\ store' = [store EXCEPT ![name].kdf = << <<"scrypt", store[name].kdf[1][2].Salt>> >>]
  /\ ret' = Result("ForeignKdf", name, "", NoErr, Nil, Nil, <<>>)
  /\ out' = Nil
  /\ UNCHANGED removed

\* One wallet, every configuration, every passphrase, every random outcome.
Next == Factory({"alice"}, Passphrases, RawConfigs, Seeds)

Spec == Init /\ [][Next]_vars

\* The envelope under external writers: one wallet, key number 0.
NextEnvelope ==
  \/ Factory({"alice"}, Passphrases, [algorithm : Algorithms, number : {0}], Seeds)
  \/ \E pos \in 1..MaxFlip : CorruptCiphertext("alice", pos)
  \/ ForeignKdf("alice")

SpecEnvelope == Init /\ [][NextEnvelope]_vars

\* The store: two wallets sealed under one passphrase and loaded under both,
\* key number 0, one random outcome.
NextStore ==
  Factory(Names, {"correct horse"}, [algorithm : Algorithms, number : {0}] \cup {Nil}, {0})

SpecStore == Init /\ [][NextStore]_vars

\* Export and re-import: one wallet sealed under one passphrase, every
\* configuration, every random outcome.
NextExport ==
  \/ Factory({"alice"}, {"correct horse"}, [algorithm : Algorithms, number : Numbers], Seeds)
  \/ CallUnsafeExport
  \/ \E rawCfg \in [algorithm : Algorithms, number : Numbers] :
       ImportExported("alice", "correct horse", rawCfg, Seeds)

SpecExport == Init /\ [][NextExport]_vars

----------------------------------------------------------------------------
(* Properties. *)

Range(f) == {f[i] : i \in DOMAIN f}

\* The last call was a Create or an Import that wrote the wallet file.
Wrote(r) ==
  /\ r.op \in {"Create", "Import"}
  /\ \E i \in DOMAIN r.log : r.log[i] = "WriteFile"
  /\ r.err # ErrSave

\* The wallet file of the last call: present, and the passphrase its
\* ciphertext was sealed under.
HasFile(n) == store[n] # NoFile
SealedUnder(n) == store[n].data.key.password
Intact(n) == store[n].data.flips = {}
HasArgon2(n) == UnmarshalEnvelope(store[n]).KDF.Argon2 # Nil

Ed25519Algorithms == {AlgorithmEd25519Adr8, AlgorithmEd25519Raw}
Secp256k1Algorithms == {AlgorithmSecp256k1Bip44, AlgorithmSecp256k1Raw}
DerivedAlgorithms == {AlgorithmEd25519Adr8, AlgorithmSecp256k1Bip44}

\* The encoding of the data is the one the algorithm asks for.
EncodingMatches(s) ==
  /\ s.Algorithm \in DerivedAlgorithms => s.Data.enc = "bip39"
  /\ s.Algorithm = AlgorithmEd25519Raw => s.Data.enc = "base64"
  /\ s.Algorithm = AlgorithmSecp256k1Raw => s.Data.enc = "hex"

\* The calls that do cryptographic work: KDF, AEAD, signer key derivation.
CryptoCalls == {"argon2.IDKey", "deoxysii.Seal", "deoxysii.Open", "slip10.derive",
                "bip32.derive", "ed25519.NewKeyFromSeed", "secp256k1.NewSigner"}

\* C1: the envelope a Create or an Import has just sealed under passphrase p
\* opens under p to the state that was sealed, and a Load under the
\* passphrase a wallet file was sealed with returns the state sealed in it.
C1_SealOpenRoundTrip ==
  /\ Wrote(ret) =>
       LET o == Open(UnmarshalEnvelope(store[ret.name]), ret.pass)
       IN o.err = NoErr /\ o.state = ret.state
  /\ (ret.op = "Load" /\ HasFile(ret.name) /\ ret.pass = SealedUnder(ret.name)
        /\ ret.err # ErrConfig) =>
       /\ ret.state # Nil
       /\ MarshalState(ret.state) = store[ret.name].data.pt

C1_Witness ==
  /\ ret.op = "Load"
  /\ HasFile(ret.name)
  /\ ret.pass = SealedUnder(ret.name)
  /\ ret.state # Nil
  /\ ret.state.Algorithm = AlgorithmSecp256k1Raw
  /\ ret.wallet # Nil

\* C2: an envelope sealed under p opens under no other passphrase q: Open
\* returns the authentication error and no state, and Load returns no wallet.
C2_WrongPassphraseFails ==
  /\ Wrote(ret) =>
       \A q \in Passphrases \ {ret.pass} :
          LET o == Open(UnmarshalEnvelope(store[ret.name]), q)
          IN o.err = ErrOpen /\ o.state = Nil
  /\ (ret.op = "Load" /\ HasFile(ret.name) /\ ret.pass # SealedUnder(ret.name)) =>
       /\ ret.state = Nil
       /\ ret.wallet = Nil
       /\ ret.err \in {ErrLoadOpen, ErrConfig}

C2_Witness ==
  /\ ret.op = "Load"
  /\ HasFile(ret.name)
  /\ ret.pass # SealedUnder(ret.name)
  /\ ret.err = ErrLoadOpen

\* C3: a Load under a wrong passphrase of an intact wallet file and a Load
\* under the right passphrase of a file with one ciphertext byte changed both
\* fail, with no state and no wallet, and with the same error value.
C3_OneAuthenticationError ==
  (ret.op = "Load" /\ HasFile(ret.name) /\ HasArgon2(ret.name) /\ ret.err # ErrConfig) =>
     /\ (Intact(ret.name) /\ ret.pass # SealedUnder(ret.name)) =>
          ret.err = ErrLoadOpen /\ ret.state = Nil /\ ret.wallet = Nil
     /\ (Cardinality(store[ret.name].data.flips) = 1 /\ ret.pass = SealedUnder(ret.name)) =>
          /\ ret.err # NoErr /\ ret.state = Nil /\ ret.wallet = Nil
          /\ \A q \in Passphrases \ {ret.pass},
                rawCfg \in [algorithm : Algorithms, number : {0}] :
               ret.err = LoadResult([store[ret.name] EXCEPT !.data.flips = {}],
                                    ret.name, q, rawCfg).err

C3_Witness ==
  /\ ret.op = "Load"
  /\ HasFile(ret.name)
  /\ HasArgon2(ret.name)
  /\ Cardinality(store[ret.name].data.flips) = 1
  /\ ret.pass = SealedUnder(ret.name)
  /\ ret.err = ErrLoadOpen

\* C4: the nonce a persisted envelope's ciphertext was sealed under is the
\* whole nonce stored in the envelope.
C4_WholeNonce ==
  \A n \in Names : HasFile(n) => store[n].data.nonce = store[n].nonce

\* C5: an envelope whose kdf object has no argon2 member fails closed: Open
\* returns the unsupported-KDF error for every passphrase without calling the
\* KDF or the cipher, and Load returns no wallet.
C5_UnknownKdfFailsClosed ==
  \A n \in Names :
     (HasFile(n) /\ ~HasArgon2(n)) =>
        /\ \A p \in Passphrases :
              LET o == Open(UnmarshalEnvelope(store[n]), p)
              IN o.err = ErrKdf /\ o.state = Nil /\ o.log = <<>>
        /\ (ret.op = "Load" /\ ret.name = n /\ ret.err # ErrConfig) =>
              /\ ret.err = ErrLoadOpen
              /\ ret.state = Nil
              /\ ret.wallet = Nil
              /\ ret.log = <<"ReadFile">>

C5_Witness ==
  /\ ret.op = "Load"
  /\ HasFile(ret.name)
  /\ ~HasArgon2(ret.name)
  /\ ret.err = ErrLoadOpen

\* C6: every persisted envelope decrypts to a state whose data is a mnemonic
\* when the algorithm is a derived one and an encoded private key when it is a
\* raw one.
C6_EncodingByAlgorithm ==
  \A n \in Names, p \in Passphrases :
     HasFile(n) =>
        LET o == Open(UnmarshalEnvelope(store[n]), p)
        IN o.err = NoErr => EncodingMatches(o.state)

\* C7: a Create or an Import whose state has data in another encoding than
\* its algorithm asks for fails, and has called no KDF, no cipher and no signer
\* derivation.
C7_MismatchFailsBeforeCrypto ==
  (ret.op \in {"Create", "Import"} /\ ret.state # Nil /\ ~EncodingMatches(ret.state)) =>
     /\ ret.err # NoErr
     /\ ret.wallet = Nil
     /\ \A i \in DOMAIN ret.log : ret.log[i] \notin CryptoCalls

\* C8: ConsensusSigner gives the Ed25519 core signer for a wallet of an
\* Ed25519 algorithm and nil for a wallet of a Secp256k1 algorithm, for wallets
\* from Create, Import and Load alike; for the wallets Create and Import
\* return, HasConsensusSigner of the configuration says the same.
C8_ConsensusSignerOnlyEd25519 ==
  (out # Nil /\ out.method = "ConsensusSigner") =>
     /\ ret.op \in {"Create", "Import", "Load"}
     /\ ret.wallet.state.Algorithm \in Ed25519Algorithms =>
          out.value # Nil /\ out.value.core = "ed25519"
     /\ ret.wallet.state.Algorithm \in Secp256k1Algorithms => out.value = Nil
     /\ ret.op \in {"Create", "Import"} =>
          (HasConsensusSigner([algorithm |-> ret.wallet.cfg.Algorithm,
                               number |-> ret.wallet.cfg.Number])
             <=> out.value # Nil)

C8_Witness ==
  /\ out # Nil
  /\ out.method = "ConsensusSigner"
  /\ ret.op = "Load"
  /\ ret.wallet.state.Algorithm = AlgorithmSecp256k1Raw
  /\ out.value = Nil

\* C9: a Load, failing or not, leaves every wallet file as it was.
C9_LoadNeverWrites == [][ret'.op = "Load" => store' = store]_vars

C9_Witness ==
  /\ ret.op = "Load"
  /\ ret.err = ErrLoadOpen
  /\ \A n \in Names : HasFile(n)

\* C10: a name whose file Remove deleted has no file, and a Load of it fails
\* with the I/O error, until Create, Import or Rename is called on that name;
\* a successful Remove leaves the files of the other names as they were.
C10_RemoveDeletes ==
  [][/\ \A n \in removed' : store'[n] = NoFile
     /\ (ret'.op = "Load" /\ ret'.name \in removed' /\ ret'.err # ErrConfig) =>
          ret'.err = ErrLoadIO /\ ret'.wallet = Nil
     /\ (ret'.op = "Remove" /\ ret'.err = NoErr) =>
          \A n \in Names \ {ret'.name} : store'[n] = store[n]]_vars

C10_Witness ==
  /\ ret.op = "Load"
  /\ ret.name \in removed
  /\ ret.err = ErrLoadIO
  /\ \E n \in Names \ {ret.name} : HasFile(n)

\* The call failed in the random source or in the write of the wallet file.
IOFailed(r) == r.err \in {ErrSave, "failed to seal state: rand: read failed"}

\* Two data strings are the same text.
SameData(a, b) == a.enc = b.enc /\ a.v = b.v

\* C11: after a Create with the Ed25519 ADR 8 algorithm and number 0, an Import
\* of the string UnsafeExport returned, as a mnemonic with the same algorithm,
\* succeeds unless the random source or the file write fails, and with number
\* 0 the imported wallet's Address is the created wallet's Address.
C11_ExportImportRoundTrip ==
  [][(/\ ret.op = "Create"
      /\ ret.wallet # Nil
      /\ ret.wallet.cfg = [Algorithm |-> AlgorithmEd25519Adr8, Number |-> 0]
      /\ out # Nil
      /\ out.method = "UnsafeExport"
      /\ ret'.op = "Import"
      /\ ret'.state # Nil
      /\ ret'.state.Algorithm = AlgorithmEd25519Adr8
      /\ SameData(ret'.state.Data, out.value)
      /\ ~IOFailed(ret'))
     => /\ ret'.err = NoErr
        /\ ret'.wallet # Nil
        /\ ret'.wallet.cfg.Number = 0 =>
             /\ Address(ret'.wallet) = Address(ret.wallet)
             /\ Address(ret'.wallet) # Panic]_vars

\* An Import with number 0 of a phrase only an UnsafeExport can have supplied:
\* the one Create generates when the random source's outcome is 1.
C11_Witness ==
  /\ ret.op = "Import"
  /\ ret.err = NoErr
  /\ ret.wallet # Nil
  /\ ret.wallet.cfg = [Algorithm |-> AlgorithmEd25519Adr8, Number |-> 0]
  /\ SameData(ret.state.Data, NewMnemonic(CreateEntropy[1]))
  /\ Address(ret.wallet) # Panic

\* The raw-key algorithms.
RawAlgorithms == {AlgorithmEd25519Raw, AlgorithmSecp256k1Raw}

\* C12: a wallet of a raw-key algorithm has the signer and the Address that
\* newWallet gives the same secret state under every other key number of the
\* configuration.
C12_RawIgnoresNumber ==
  (ret.wallet # Nil /\ ret.wallet.state.Algorithm \in RawAlgorithms) =>
     \A n \in Numbers :
        LET w == newWallet(ret.wallet.state, [ret.wallet.cfg EXCEPT !.Number = n])
        IN /\ w.err = NoErr
           /\ w.wallet.signer = ret.wallet.signer
           /\ SignatureAddressSpec(w.wallet) = SignatureAddressSpec(ret.wallet)
           /\ Address(w.wallet) = Address(ret.wallet)

\* A raw Secp256k1 wallet loaded under key number 1, with an address.
C12_Witness ==
  /\ ret.op = "Load"
  /\ ret.wallet # Nil
  /\ ret.wallet.state.Algorithm = AlgorithmSecp256k1Raw
  /\ ret.wallet.cfg = [Algorithm |-> AlgorithmSecp256k1Raw, Number |-> 1]
  /\ Address(ret.wallet) # Panic

\* C14: a Create or an Import that returns an error has left every wallet
\* file as it was.
C14_FailedCallWritesNothing ==
  [][(ret'.op \in {"Create", "Import"} /\ ret'.err # NoErr) => store' = store]_vars

\* The signer's curve is the one the configuration's algorithm names.
CurveAgrees(w) ==
  /\ w.cfg.Algorithm \in Ed25519Algorithms \cup Secp256k1Algorithms
  /\ w.cfg.Algorithm \in Ed25519Algorithms <=> w.signer.curve = "ed25519"
  /\ w.cfg.Algorithm \in Secp256k1Algorithms <=> w.signer.curve = "secp256k1"

\* C15: in every wallet a Create, an Import or a Load returned, the signer's
\* curve is the one the configuration's algorithm names, and
\* SignatureAddressSpec and Address do not fail their type assertion.
C15_CurveAgreesWithConfig ==
  (ret.op \in {"Create", "Import", "Load"} /\ ret.wallet # Nil) =>
     /\ CurveAgrees(ret.wallet)
     /\ SignatureAddressSpec(ret.wallet) # Panic
     /\ Address(ret.wallet) # Panic

====
